---- MODULE Spec2Model ----
(***************************************************************************)
(* Overlap scheduling in TpModelWorker (sglang/srt/managers/tp_worker.py). *)
(*                                                                         *)
(* Two execution contexts share the worker object: the scheduler (caller)  *)
(* context, which runs forward_batch_generation_non_blocking,              *)
(* resolve_future_token_ids and resolve_future_logits_output, and the      *)
(* forward thread, which runs forward_thread_func_.  Every action below is *)
(* one block of statements of one of these contexts; the blocks are cut    *)
(* where the other context can observe the difference.                     *)
(***************************************************************************)
EXTENDS Integers, Sequences, FiniteSets, TLC

(***************************************************************************)
(* Bounds of the model.                                                    *)
(***************************************************************************)
\* self.max_running_requests: a configuration value, the largest batch size
MaxRunning == 2
\* number of submissions explored by Spec
MaxBatches == 3
\* number of submissions explored by SpecPaced
MaxPaced == 5
\* number of submissions explored by SpecAlloc
MaxAlloc == 7
\* number of submissions explored by SpecAux
MaxAux == 2
\* number of submissions explored by SpecLive
MaxLive == 2
\* number of submissions explored by SpecBurst
MaxBurst == 4

\* batch identifiers the scheduler may use
Bids == {1, 2}
\* literal (already known) token ids of a submitted input
LiteralTokens == {5}
\* what a never written slot of the torch.empty buffer may hold: the buffer is
\* uninitialised int32 memory, so any 32 bit value
Int32Min == 0 - 2147483647 - 1
Int32Max == 2147483647
GarbageVals == Int32Min..Int32Max

VARIABLES
    future_logits_output_dict,  \* handle -> logits_output
    future_logits_output_ct,    \* next handle
    future_token_ids_ct,        \* allocator counter
    future_token_ids_map,       \* slot -> token id, defined on the written slots
    future_token_ids_uninit,    \* slot -> what the buffer holds, for the slots read
                                \* before they were written
    future_token_ids_output,    \* bid -> list of token ids
    future_event_map,           \* bid -> is the threading.Event set
    forward_queue,              \* Queue of (batch, future_logits_output, future_next_token_ids)
    thread_pc,                  \* position of the forward thread
    thread_item,                \* the tuple the forward thread dequeued
    thread_out,                 \* (logits_output, next_token_ids) of the forward thread
    caller_pc,                  \* position of the scheduler context
    caller_item,                \* locals of the call in progress
    hist                        \* history: one record per submitted batch

vars == << future_logits_output_dict, future_logits_output_ct, future_token_ids_ct,
           future_token_ids_map, future_token_ids_uninit, future_token_ids_output, future_event_map,
           forward_queue, thread_pc, thread_item, thread_out, caller_pc,
           caller_item, hist >>

(***************************************************************************)
(* init_overlap_status                                                     *)
(***************************************************************************)
future_token_ids_limit == MaxRunning * 3
future_token_ids_capacity == MaxRunning * 5

(***************************************************************************)
(* Python values                                                           *)
(***************************************************************************)
DictSet(d, k, v) == [x \in (DOMAIN d) \cup {k} |-> IF x = k THEN v ELSE d[x]]
DictDel(d, k) == [x \in (DOMAIN d) \ {k} |-> d[x]]
EmptyDict == [x \in {} |-> 0]

\* torch.arange(lo, hi): lo, lo+1, .., hi-1
Arange(lo, hi) == [i \in 1..(hi - lo) |-> lo + i - 1]
Negate(s) == [i \in 1..Len(s) |-> 0 - s[i]]
SeqRange(s) == {s[i] : i \in 1..Len(s)}

NoItem == [batch |-> [bid |-> 0, input_ids |-> << >>, seq_lens |-> << >>,
                      return_logprob |-> FALSE],
           future_logits_output |-> 0, future_next_token_ids |-> << >>, idx |-> 0]
NoOut == [logits_output |-> 0, next_token_ids |-> << >>]

Init ==
    /\ future_logits_output_dict = EmptyDict
    /\ future_logits_output_ct = 0
    /\ future_token_ids_ct = 0
    /\ future_token_ids_map = EmptyDict
    /\ future_token_ids_uninit = EmptyDict
    /\ future_token_ids_output = EmptyDict
    /\ future_event_map = EmptyDict
    /\ forward_queue = << >>
    /\ thread_pc = "get"
    /\ thread_item = NoItem
    /\ thread_out = NoOut
    /\ caller_pc = "idle"
    /\ caller_item = NoItem
    /\ hist = << >>

(***************************************************************************)
(* The compute backend                                                     *)
(***************************************************************************)
\* what forward_batch_generation returns for the idx-th submitted batch: one token
\* per sequence and a logits output.  The worker never inspects either, so the
\* backend is given outputs that tell the batches and the positions apart.
TokenOf(idx, i) == 10 * idx + i
LogitsOf(idx) == 100 + idx

(***************************************************************************)
(* History: what happened to each submitted batch, and what the callers    *)
(* have picked up.  Written by the actions, read only by the properties.   *)
(***************************************************************************)
HistIdx == 1..Len(hist)
\* every batch submitted with this bid has been picked up, and there is one
Taken(bid) ==
    /\ \E i \in HistIdx : hist[i].bid = bid
    /\ \A i \in HistIdx : hist[i].bid = bid => hist[i].consumed
\* number of sequences in the batches that have not been picked up
RECURSIVE UnconsumedFrom(_)
UnconsumedFrom(i) ==
    IF i > Len(hist) THEN 0
    ELSE (IF hist[i].consumed THEN 0 ELSE Len(hist[i].refs)) + UnconsumedFrom(i + 1)
UnconsumedSeqs == UnconsumedFrom(1)

\* the compute backend has raised in the forward thread
ComputeFailed == thread_pc = "ComputeError"

\* the record of a batch once its bid is picked up: what it was given and how far
\* it got are kept, the data it carried is no longer needed
PickedUp(h) ==
    [h EXCEPT !.consumed = TRUE, !.input_ids = << >>, !.fed = << >>,
              !.tokens = << >>, !.logits = 0]

SetPhase(h, i, p) == IF i \in 1..Len(h) THEN [h EXCEPT ![i].phase = p] ELSE h

(***************************************************************************)
(* forward_batch_generation_non_blocking, lines 208-232                    *)
(***************************************************************************)
\* the scheduler context is between two calls (the last one returned or raised)
Ready == caller_pc \in {"idle", "token_ids_KeyError", "logits_output_KeyError"}

\* a variant that reduces the magnitudes modulo the limit
future_next_token_ids_modulo(ct, bs) ==
    [i \in 1..bs |-> 0 - ((ct + i) % (MaxRunning * 3))]
\* lines 215-222: the references minted for a batch of bs sequences
future_next_token_ids_of(ct, bs) == Negate(Arange(ct + 1, ct + 1 + bs))
\* a variant that does not advance the counter
future_token_ids_ct_stuck(ct, bs) == ct
\* a variant that advances the counter without the wrap
future_token_ids_ct_unwrapped(ct, bs) == ct + bs
\* lines 223-225: the counter after the allocation
future_token_ids_ct_after(ct, bs) == (ct + bs) % future_token_ids_limit
\* line 228: the event map after the registration of bid
register_event(event_map, bid) == DictSet(event_map, bid, FALSE)

\* lines 212-228: allocate the handle and the references, register the event
forward_batch_generation_non_blocking(model_worker_batch) ==
    /\ Ready
    /\ LET future_logits_output == future_logits_output_ct
           bs == Len(model_worker_batch.seq_lens)
           future_next_token_ids ==
               future_next_token_ids_of(future_token_ids_ct, bs)
       IN /\ future_logits_output_ct' = future_logits_output_ct + 1
          /\ future_token_ids_ct' = future_token_ids_ct_after(future_token_ids_ct, bs)
          /\ future_event_map' = register_event(future_event_map, model_worker_batch.bid)
          /\ caller_item' = [batch |-> model_worker_batch,
                             future_logits_output |-> future_logits_output,
                             future_next_token_ids |-> future_next_token_ids,
                             idx |-> Len(hist) + 1]
          /\ hist' = Append(hist,
                 [bid |-> model_worker_batch.bid,
                  handle |-> future_logits_output,
                  input_ids |-> model_worker_batch.input_ids,
                  return_logprob |-> model_worker_batch.return_logprob,
                  refs |-> future_next_token_ids,
                  ct0 |-> future_token_ids_ct,
                  dup |-> model_worker_batch.bid \in DOMAIN future_event_map,
                  fatal |-> ComputeFailed,
                  phase |-> "registered", fed |-> << >>, tokens |-> << >>,
                  logits |-> 0, consumed |-> FALSE, returned |-> FALSE,
                  popped |-> << >>])
    /\ caller_pc' = "put"
    /\ UNCHANGED future_token_ids_uninit
    /\ UNCHANGED << future_logits_output_dict, future_token_ids_map,
                    future_token_ids_output, forward_queue, thread_pc,
                    thread_item, thread_out >>

\* a variant for a queue built with a maximum size (Queue(maxsize=2))
QueueHasRoomBounded(queue) == Len(queue) < 2
\* line 132: Queue() has no maximum size, so put never waits for room
QueueHasRoom(queue) == TRUE

\* a variant that puts the item at the front of the queue
QueuePutFront(queue, item) == << item >> \o queue
\* Queue.put: the item goes to the end of the queue
QueuePut(queue, item) == Append(queue, item)

\* lines 229-232: enqueue a copy of the batch and return
forward_queue_put ==
    /\ caller_pc = "put"
    /\ QueueHasRoom(forward_queue)
    /\ forward_queue' = QueuePut(forward_queue, caller_item)
    /\ hist' = SetPhase(hist, caller_item.idx, "queued")
    /\ caller_pc' = "idle"
    /\ caller_item' = NoItem
    /\ UNCHANGED future_token_ids_uninit
    /\ UNCHANGED << future_logits_output_dict, future_logits_output_ct,
                    future_token_ids_ct, future_token_ids_map,
                    future_token_ids_output, future_event_map, thread_pc,
                    thread_item, thread_out >>

(***************************************************************************)
(* resolve_future_token_ids, lines 187-191                                 *)
(***************************************************************************)
\* line 188: look the event up (KeyError when absent) and start waiting
resolve_future_token_ids(bid) ==
    /\ Ready
    /\ caller_pc' = IF bid \in DOMAIN future_event_map
                    THEN "wait" ELSE "token_ids_KeyError"
    /\ caller_item' = [NoItem EXCEPT !.batch.bid = bid]
    /\ UNCHANGED future_token_ids_uninit
    /\ UNCHANGED << future_logits_output_dict, future_logits_output_ct,
                    future_token_ids_ct, future_token_ids_map,
                    future_token_ids_output, future_event_map, forward_queue,
                    thread_pc, thread_item, thread_out, hist >>

\* a variant that does not wait for the event
EventWaitReturnsAtOnce(event_map, bid) == TRUE
\* line 188: Event.wait() returns when the event is set
EventWaitReturns(event_map, bid) == event_map[bid]

\* lines 188-189: wait() returns once the event is set, then the output is read
resolve_future_token_ids_wait ==
    /\ caller_pc = "wait"
    /\ LET bid == caller_item.batch.bid
       IN /\ EventWaitReturns(future_event_map, bid)
          /\ IF bid \in DOMAIN future_token_ids_output
             THEN /\ caller_pc' = "del"
                  /\ caller_item' =
                         [caller_item EXCEPT !.future_next_token_ids =
                                                  future_token_ids_output[bid]]
             ELSE /\ caller_pc' = "token_ids_KeyError"
                  /\ UNCHANGED caller_item
    /\ UNCHANGED future_token_ids_uninit
    /\ UNCHANGED << future_logits_output_dict, future_logits_output_ct,
                    future_token_ids_ct, future_token_ids_map,
                    future_token_ids_output, future_event_map, forward_queue,
                    thread_pc, thread_item, thread_out, hist >>

\* the list of tokens the backend produces for the batch of record h, the i-th submitted
TokensOfBatch(h, i) == [p \in 1..Len(h.refs) |-> TokenOf(i, p)]
\* the history after a pickup of bid that returns ret: the batches under bid are
\* picked up, and the batch whose tokens ret is has had its tokens returned
AfterPickup(h, bid, ret) ==
    [i \in 1..Len(h) |->
        IF h[i].bid = bid
        THEN [PickedUp(h[i]) EXCEPT !.returned =
                 h[i].returned \/ (~h[i].consumed /\ ret = TokensOfBatch(h[i], i))]
        ELSE h[i]]

\* a variant that leaves the event in the map
resolve_event_map_kept(event_map, bid) == event_map
\* what line 190 leaves of the event map
resolve_event_map_after(event_map, bid) == DictDel(event_map, bid)
\* what lines 189-191 leave of the output dict: it is read, nothing is deleted
resolve_output_after(output, bid) == output
\* a variant that gives the references of the batch back to the allocator
resolve_ct_rewound(ct, ret) == (ct + MaxRunning * 3 - Len(ret)) % (MaxRunning * 3)
\* what lines 187-191 leave of the allocator counter: they do not touch it
resolve_ct_after(ct, ret) == ct

\* lines 190-191: delete the event and return the output
resolve_future_token_ids_del ==
    /\ caller_pc = "del"
    /\ LET bid == caller_item.batch.bid
       IN /\ future_event_map' = resolve_event_map_after(future_event_map, bid)
          /\ future_token_ids_output' =
                 resolve_output_after(future_token_ids_output, bid)
          /\ future_token_ids_ct' =
                 resolve_ct_after(future_token_ids_ct,
                                  caller_item.future_next_token_ids)
          /\ hist' = AfterPickup(hist, bid, caller_item.future_next_token_ids)
    /\ caller_pc' = "idle"
    /\ caller_item' = NoItem
    /\ UNCHANGED future_token_ids_uninit
    /\ UNCHANGED << future_logits_output_dict, future_logits_output_ct,
                    future_token_ids_map, forward_queue,
                    thread_pc, thread_item, thread_out >>

(***************************************************************************)
(* resolve_future_logits_output, lines 193-194                             *)
(***************************************************************************)
\* line 194: what dict.pop(future_obj) leaves of the dict
pop_logits_after(logits_dict, future_obj) == DictDel(logits_dict, future_obj)

\* the history after resolve_future_logits_output(future_obj) has returned value
AfterPop(h, future_obj, value) ==
    [i \in 1..Len(h) |->
        IF h[i].handle = future_obj
        THEN [h[i] EXCEPT !.popped = Append(h[i].popped, value)] ELSE h[i]]

\* dict.pop(future_obj): the entry is returned and removed, KeyError when absent
resolve_future_logits_output(future_obj) ==
    /\ Ready
    /\ IF future_obj \in DOMAIN future_logits_output_dict
       THEN /\ future_logits_output_dict' =
                   pop_logits_after(future_logits_output_dict, future_obj)
            /\ caller_pc' = "idle"
            /\ caller_item' = NoItem
            /\ hist' = AfterPop(hist, future_obj,
                                future_logits_output_dict[future_obj])
       ELSE /\ caller_pc' = "logits_output_KeyError"
            /\ caller_item' = [NoItem EXCEPT !.future_logits_output = future_obj]
            /\ UNCHANGED << future_logits_output_dict, hist >>
    /\ UNCHANGED future_token_ids_uninit
    /\ UNCHANGED << future_logits_output_ct, future_token_ids_ct,
                    future_token_ids_map, future_token_ids_output, future_event_map,
                    forward_queue, thread_pc, thread_item, thread_out >>

(***************************************************************************)
(* forward_thread_func_, lines 144-176                                     *)
(***************************************************************************)
\* the slots a list of input ids reads: the magnitudes of its negative entries
FutureSlots(input_ids) == {0 - input_ids[i] : i \in {j \in 1..Len(input_ids) : input_ids[j] < 0}}

\* a variant that reads the slot below the magnitude
ResolveInputIdsOffByOne(input_ids, map, garbage) ==
    [i \in 1..Len(input_ids) |->
        IF input_ids[i] < 0
        THEN (IF (0 - input_ids[i] - 1) \in DOMAIN map
              THEN map[0 - input_ids[i] - 1] ELSE 0)
        ELSE input_ids[i]]

\* lines 153-157: every negative entry is replaced by the table's value at its
\* magnitude; garbage gives what the buffer holds in the slots never written
ResolveInputIds(input_ids, map, garbage) ==
    [i \in 1..Len(input_ids) |->
        IF input_ids[i] < 0
        THEN (IF (0 - input_ids[i]) \in DOMAIN map
              THEN map[0 - input_ids[i]] ELSE garbage[0 - input_ids[i]])
        ELSE input_ids[i]]

\* the known content of the never written slots, with the slots just read
ReadUninit(uninit, first_read) ==
    [k \in (DOMAIN uninit) \cup (DOMAIN first_read) |->
        IF k \in DOMAIN uninit THEN uninit[k] ELSE first_read[k]]
\* the content of the never written slots once the slots of refs are written
Overwritten(uninit, future_next_token_ids) ==
    [k \in (DOMAIN uninit) \ {0 - future_next_token_ids[i] :
                                  i \in 1..Len(future_next_token_ids)} |-> uninit[k]]

\* a variant that takes the item put last (LifoQueue)
QueueGetLast(queue) ==
    [item |-> queue[Len(queue)], rest |-> SubSeq(queue, 1, Len(queue) - 1)]
\* Queue.get: the item at the front of the queue, and the queue it leaves
QueueGet(queue) == [item |-> Head(queue), rest |-> Tail(queue)]

\* lines 146-157: dequeue the next tuple and resolve the future tokens of its input;
\* first_read is what the buffer holds in the slots read for the first time
\* before any write
forward_thread_get(first_read) ==
    /\ thread_pc = "get"
    /\ forward_queue # << >>
    /\ LET item == QueueGet(forward_queue).item
           slots == FutureSlots(item.batch.input_ids)
       IN /\ forward_queue' = QueueGet(forward_queue).rest
          /\ IF \E k \in slots : k >= future_token_ids_capacity
             THEN \* IndexError: the thread ends, nothing was read
                  /\ first_read = EmptyDict
                  /\ thread_pc' = "IndexError"
                  /\ thread_item' = NoItem
                  /\ hist' = SetPhase(hist, item.idx, "lost")
                  /\ UNCHANGED future_token_ids_uninit
             ELSE \* a slot read for the first time before any write shows what the
                  \* buffer was left with at line 125, any int32; it keeps that value
                  /\ first_read \in [slots \ (DOMAIN future_token_ids_map
                                               \cup DOMAIN future_token_ids_uninit)
                                        -> GarbageVals]
                  /\ future_token_ids_uninit' =
                         ReadUninit(future_token_ids_uninit, first_read)
                  /\ thread_pc' = "forward"
                  /\ thread_item' =
                         [item EXCEPT !.batch.input_ids =
                             ResolveInputIds(item.batch.input_ids,
                                             future_token_ids_map,
                                             ReadUninit(future_token_ids_uninit,
                                                        first_read))]
                  /\ hist' = SetPhase(hist, item.idx, "dequeued")
    /\ UNCHANGED << future_logits_output_dict, future_logits_output_ct,
                    future_token_ids_ct, future_token_ids_map,
                    future_token_ids_output, future_event_map, thread_out,
                    caller_pc, caller_item >>

\* the slots the next dequeue reads for the first time before any write
UnreadSlots ==
    IF forward_queue = << >> THEN {}
    ELSE LET slots == FutureSlots(QueueGet(forward_queue).item.batch.input_ids)
         IN IF \E k \in slots : k >= future_token_ids_capacity THEN {}
            ELSE slots \ (DOMAIN future_token_ids_map
                            \cup DOMAIN future_token_ids_uninit)

\* the dequeue, with the buffer holding any int32 in the slots it reads for the
\* first time
ForwardThreadGet ==
    /\ thread_pc = "get"
    /\ \E first_read \in [UnreadSlots -> GarbageVals] : forward_thread_get(first_read)

\* lines 196-200: forward_batch_generation returns a logits output and one token
\* per sequence
BackendOutput(batch, idx) ==
    [logits_output |-> LogitsOf(idx),
     next_token_ids |-> [i \in 1..Len(batch.seq_lens) |-> TokenOf(idx, i)]]

\* lines 160-162: forward_batch_generation returns
forward_thread_forward ==
    /\ thread_pc = "forward"
    /\ LET out == BackendOutput(thread_item.batch, thread_item.idx)
       IN /\ thread_out' = out
          /\ hist' = [hist EXCEPT ![thread_item.idx].phase = "computed",
                                  ![thread_item.idx].fed = thread_item.batch.input_ids,
                                  ![thread_item.idx].tokens = out.next_token_ids,
                                  ![thread_item.idx].logits = out.logits_output]
    /\ thread_pc' = "set_future"
    /\ UNCHANGED future_token_ids_uninit
    /\ UNCHANGED << future_logits_output_dict, future_logits_output_ct,
                    future_token_ids_ct, future_token_ids_map,
                    future_token_ids_output, future_event_map, forward_queue,
                    thread_item, caller_pc, caller_item >>

\* lines 160-162: forward_batch_generation raises; nothing catches it, so the
\* exception leaves the loop of forward_thread_func_ and the thread ends
forward_thread_raise ==
    /\ thread_pc = "forward"
    /\ thread_pc' = "ComputeError"
    /\ thread_item' = NoItem
    /\ hist' = [hist EXCEPT ![thread_item.idx].phase = "raised",
                            ![thread_item.idx].fed = thread_item.batch.input_ids]
    /\ UNCHANGED future_token_ids_uninit
    /\ UNCHANGED << future_logits_output_dict, future_logits_output_ct,
                    future_token_ids_ct, future_token_ids_map,
                    future_token_ids_output, future_event_map, forward_queue,
                    thread_out, caller_pc, caller_item >>

\* a variant that publishes the logits output of every batch
publish_logits_always(logits_dict, return_logprob, handle, logits_output) ==
    DictSet(logits_dict, handle, logits_output)
\* lines 165-166: the logits output is published under the handle if asked for
publish_logits(logits_dict, return_logprob, handle, logits_output) ==
    IF return_logprob THEN DictSet(logits_dict, handle, logits_output)
    ELSE logits_dict

\* a variant that indexes the table by the references themselves: a negative index
\* counts from the end of the buffer
WriteFutureTokensNoNegate(map, future_next_token_ids, next_token_ids) ==
    [k \in (DOMAIN map) \cup {future_token_ids_capacity + future_next_token_ids[i] :
                                 i \in 1..Len(future_next_token_ids)} |->
        IF \E i \in 1..Len(future_next_token_ids) :
              future_token_ids_capacity + future_next_token_ids[i] = k
        THEN next_token_ids[CHOOSE i \in 1..Len(future_next_token_ids) :
                               future_token_ids_capacity + future_next_token_ids[i] = k]
        ELSE map[k]]
\* lines 169-171: future_token_ids_map[-future_next_token_ids] = next_token_ids
WriteFutureTokens(map, future_next_token_ids, next_token_ids) ==
    [k \in (DOMAIN map) \cup {0 - future_next_token_ids[i] :
                                 i \in 1..Len(future_next_token_ids)} |->
        IF \E i \in 1..Len(future_next_token_ids) : 0 - future_next_token_ids[i] = k
        THEN next_token_ids[CHOOSE i \in 1..Len(future_next_token_ids) :
                               0 - future_next_token_ids[i] = k]
        ELSE map[k]]

\* lines 164-171: publish the logits output if asked for, write the tokens into the table
forward_thread_set_future ==
    /\ thread_pc = "set_future"
    /\ future_logits_output_dict' =
          publish_logits(future_logits_output_dict, thread_item.batch.return_logprob,
                         thread_item.future_logits_output, thread_out.logits_output)
    /\ IF \E i \in 1..Len(thread_item.future_next_token_ids) :
             0 - thread_item.future_next_token_ids[i] >= future_token_ids_capacity
       THEN \* IndexError: the thread ends
            /\ thread_pc' = "IndexError"
            /\ thread_item' = NoItem
            /\ thread_out' = NoOut
            /\ hist' = SetPhase(hist, thread_item.idx, "lost")
            /\ UNCHANGED << future_token_ids_map, future_token_ids_uninit >>
       ELSE /\ future_token_ids_map' =
                   WriteFutureTokens(future_token_ids_map,
                                     thread_item.future_next_token_ids,
                                     thread_out.next_token_ids)
            /\ future_token_ids_uninit' =
                   Overwritten(future_token_ids_uninit,
                               thread_item.future_next_token_ids)
            /\ thread_pc' = "set_output"
            /\ thread_out' = [thread_out EXCEPT !.logits_output = 0]
            /\ hist' = SetPhase(hist, thread_item.idx, "published")
            /\ UNCHANGED thread_item
    /\ UNCHANGED << future_logits_output_ct, future_token_ids_ct,
                    future_token_ids_output, future_event_map, forward_queue,
                    caller_pc, caller_item >>

\* a variant that keeps an output already stored under bid (setdefault)
store_output_if_absent(output, bid, next_token_ids) ==
    IF bid \in DOMAIN output THEN output ELSE DictSet(output, bid, next_token_ids)
\* lines 173-175: the output dict after output[bid] = next_token_ids.tolist()
store_output(output, bid, next_token_ids) == DictSet(output, bid, next_token_ids)

\* lines 173-175: future_token_ids_output[bid] = next_token_ids.tolist()
forward_thread_set_output ==
    /\ thread_pc = "set_output"
    /\ future_token_ids_output' =
          store_output(future_token_ids_output, thread_item.batch.bid,
                       thread_out.next_token_ids)
    /\ thread_pc' = "set_event"
    /\ hist' = SetPhase(hist, thread_item.idx, "stored")
    /\ UNCHANGED future_token_ids_uninit
    /\ UNCHANGED << future_logits_output_dict, future_logits_output_ct,
                    future_token_ids_ct, future_token_ids_map, future_event_map,
                    forward_queue, thread_item, thread_out, caller_pc, caller_item >>

\* line 176: future_event_map[bid].set(); a KeyError ends the thread
forward_thread_set_event ==
    /\ thread_pc = "set_event"
    /\ IF thread_item.batch.bid \in DOMAIN future_event_map
       THEN /\ future_event_map' =
                   [future_event_map EXCEPT ![thread_item.batch.bid] = TRUE]
            /\ thread_pc' = "get"
            /\ hist' = SetPhase(hist, thread_item.idx, "signalled")
       ELSE /\ thread_pc' = "KeyError"
            /\ hist' = SetPhase(hist, thread_item.idx, "lost")
            /\ UNCHANGED future_event_map
    /\ thread_item' = NoItem
    /\ thread_out' = NoOut
    /\ UNCHANGED future_token_ids_uninit
    /\ UNCHANGED << future_logits_output_dict, future_logits_output_ct,
                    future_token_ids_ct, future_token_ids_map,
                    future_token_ids_output, forward_queue, caller_pc, caller_item >>

(***************************************************************************)
(* The scheduler: which calls it makes, with which arguments               *)
(***************************************************************************)
ModelWorkerBatch(bid, bs, input_ids, return_logprob) ==
    [bid |-> bid, input_ids |-> input_ids, seq_lens |-> [i \in 1..bs |-> 1],
     return_logprob |-> return_logprob]
LiteralInput(bs) == [i \in 1..bs |-> CHOOSE t \in LiteralTokens : TRUE]
\* the batches whose references the scheduler feeds to the next batch: the one
\* it submitted last and those whose tokens it has not picked up yet (the next
\* batch continues sequences whose latest token is still a reference)
RecentBatches == {i \in HistIdx : i = Len(hist) \/ ~hist[i].consumed}
RecentRefs ==
    UNION {{hist[i].refs[p] : p \in 1..Len(hist[i].refs)} : i \in RecentBatches}
\* inputs of bs entries whose placeholders were minted for batches submitted
\* earlier: literal tokens, literal tokens with one placeholder at any position,
\* and the references of a recent batch of bs sequences as they were returned
PlaceholderInputs(bs) ==
    {LiteralInput(bs)}
    \cup {[LiteralInput(bs) EXCEPT ![j] = ref] : j \in 1..bs, ref \in RecentRefs}
    \cup {hist[a].refs : a \in {i \in RecentBatches : Len(hist[i].refs) = bs}}

\* Spec: a batch of literal tokens, of at most max_running_requests sequences,
\* under any bid, at any time
Submit ==
    /\ future_logits_output_ct < MaxBatches
    /\ \E bid \in Bids, bs \in 1..MaxRunning :
          forward_batch_generation_non_blocking(
              ModelWorkerBatch(bid, bs, LiteralInput(bs), FALSE))

ResolveTokenIds == \E bid \in Bids : resolve_future_token_ids(bid)

Next ==
    \/ Submit
    \/ forward_queue_put
    \/ ResolveTokenIds
    \/ resolve_future_token_ids_wait
    \/ resolve_future_token_ids_del
    \/ ForwardThreadGet
    \/ forward_thread_forward
    \/ forward_thread_raise
    \/ forward_thread_set_future
    \/ forward_thread_set_output
    \/ forward_thread_set_event

Spec == Init /\ [][Next]_vars

\* SpecPaced: the scheduler keeps its side of the contract.  The batches that are
\* not yet picked up hold at most max_running_requests sequences, a bid is not
\* used again before it is picked up, only submitted bids are picked up, and the
\* compute backend returns.  Inputs may hold placeholders, each of them a reference
\* that an earlier submission returned, so the forward thread never reads a slot
\* of the table that it has not written.
SubmitPaced ==
    /\ future_logits_output_ct < MaxPaced
    /\ \E bs \in 1..MaxRunning :
          /\ UnconsumedSeqs + bs <= MaxRunning
          /\ \E bid \in Bids \ DOMAIN future_event_map :
                /\ \A other \in Bids \ DOMAIN future_event_map : bid <= other
                /\ \E input_ids \in PlaceholderInputs(bs) :
                      forward_batch_generation_non_blocking(
                          ModelWorkerBatch(bid, bs, input_ids, FALSE))

ResolvePaced == \E bid \in DOMAIN future_event_map : resolve_future_token_ids(bid)

NextPaced ==
    \/ SubmitPaced
    \/ forward_queue_put
    \/ ResolvePaced
    \/ resolve_future_token_ids_wait
    \/ resolve_future_token_ids_del
    \/ ForwardThreadGet
    \/ forward_thread_forward
    \/ forward_thread_set_future
    \/ forward_thread_set_output
    \/ forward_thread_set_event

SpecPaced == Init /\ [][NextPaced]_vars

\* SpecAlloc: as SpecPaced, for longer runs of submissions of literal tokens.  The
\* scheduler calls resolve_future_token_ids once the event is set: a call that
\* waits keeps the scheduler from submitting, so it allocates nothing more than
\* the call that is made later
SubmitAlloc ==
    /\ future_logits_output_ct < MaxAlloc
    /\ \E bs \in 1..MaxRunning :
          /\ UnconsumedSeqs + bs <= MaxRunning
          /\ \E bid \in Bids \ DOMAIN future_event_map :
                /\ \A other \in Bids \ DOMAIN future_event_map : bid <= other
                /\ forward_batch_generation_non_blocking(
                       ModelWorkerBatch(bid, bs, LiteralInput(bs), FALSE))

ResolveAlloc ==
    \E bid \in DOMAIN future_event_map :
        future_event_map[bid] /\ resolve_future_token_ids(bid)

NextAlloc ==
    \/ SubmitAlloc
    \/ forward_queue_put
    \/ ResolveAlloc
    \/ resolve_future_token_ids_wait
    \/ resolve_future_token_ids_del
    \/ ForwardThreadGet
    \/ forward_thread_forward
    \/ forward_thread_set_future
    \/ forward_thread_set_output
    \/ forward_thread_set_event

SpecAlloc == Init /\ [][NextAlloc]_vars

\* SpecAux: batches of one or of max_running_requests sequences, with and without
\* return_logprob, under any bid, at any time; the scheduler calls
\* resolve_future_logits_output with any handle, at any time
SubmitAux ==
    /\ future_logits_output_ct < MaxAux
    /\ \E bid \in Bids, bs \in {1, MaxRunning}, return_logprob \in BOOLEAN :
          forward_batch_generation_non_blocking(
              ModelWorkerBatch(bid, bs, LiteralInput(bs), return_logprob))

ResolveLogitsOutput ==
    \E future_obj \in 0..(MaxAux - 1) : resolve_future_logits_output(future_obj)

NextAux ==
    \/ SubmitAux
    \/ forward_queue_put
    \/ ResolveTokenIds
    \/ resolve_future_token_ids_wait
    \/ resolve_future_token_ids_del
    \/ ResolveLogitsOutput
    \/ ForwardThreadGet
    \/ forward_thread_forward
    \/ forward_thread_set_future
    \/ forward_thread_set_output
    \/ forward_thread_set_event

SpecAux == Init /\ [][NextAux]_vars

\* SpecBurst: full batches (max_running_requests sequences each) submitted under
\* any bid, at any time, with or without a pickup in between
SubmitBurst ==
    /\ future_logits_output_ct < MaxBurst
    /\ \E bid \in Bids :
          forward_batch_generation_non_blocking(
              ModelWorkerBatch(bid, MaxRunning, LiteralInput(MaxRunning), FALSE))

NextBurst ==
    \/ SubmitBurst
    \/ forward_queue_put
    \/ ResolveTokenIds
    \/ resolve_future_token_ids_wait
    \/ resolve_future_token_ids_del
    \/ ForwardThreadGet
    \/ forward_thread_forward
    \/ forward_thread_set_future
    \/ forward_thread_set_output
    \/ forward_thread_set_event

SpecBurst == Init /\ [][NextBurst]_vars

\* SpecLive: as Spec, with a compute backend that always returns, and with the two
\* contexts scheduled fairly: the forward thread is a running thread whose loop
\* takes its next step whenever it can (it waits only in Queue.get), and a call of
\* the scheduler that is under way goes on whenever it can (it waits only in
\* Event.wait)
SubmitLive ==
    /\ future_logits_output_ct < MaxLive
    /\ \E bid \in Bids, bs \in 1..MaxRunning :
          forward_batch_generation_non_blocking(
              ModelWorkerBatch(bid, bs, LiteralInput(bs), FALSE))

ForwardThreadStep ==
    \/ ForwardThreadGet
    \/ forward_thread_forward
    \/ forward_thread_set_future
    \/ forward_thread_set_output
    \/ forward_thread_set_event

CallUnderWayStep ==
    \/ forward_queue_put
    \/ resolve_future_token_ids_wait
    \/ resolve_future_token_ids_del

NextLive ==
    \/ SubmitLive
    \/ ResolveTokenIds
    \/ CallUnderWayStep
    \/ ForwardThreadStep

SpecLive ==
    /\ Init
    /\ [][NextLive]_vars
    /\ WF_vars(ForwardThreadStep)
    /\ WF_vars(CallUnderWayStep)

(***************************************************************************)
(* Properties                                                              *)
(***************************************************************************)
Refs(i) == SeqRange(hist[i].refs)
\* the forward thread has taken batch i from the queue
Started(i) == hist[i].phase \notin {"registered", "queued"}
\* no batch was ever submitted under a bid that was registered and not picked up
NoBidReuse == \A i \in HistIdx : ~hist[i].dup
\* batch a was minted the placeholder ref (a negative number)
Minted(a, ref) == ref \in Refs(a)
PosOf(a, ref) == CHOOSE i \in 1..Len(hist[a].refs) : hist[a].refs[i] = ref
\* a is the last batch before b that was minted ref
LatestMinter(a, b, ref) ==
    /\ a < b
    /\ Minted(a, ref)
    /\ \A other \in (a + 1)..(b - 1) : ~Minted(other, ref)

\* C1 (as claimed; the code violates it): when forward_batch_generation raises
\* for a batch, the forward thread does not end before it has set the event of
\* that batch's bid, so that a waiter on the bid is released.
C1_FailureIsSignalled ==
    thread_pc = "ComputeError" =>
        \A i \in HistIdx :
            hist[i].phase = "raised" =>
                /\ hist[i].bid \in DOMAIN future_event_map
                /\ future_event_map[hist[i].bid]

\* the placeholders of the input of batch b were minted for earlier batches
MintedEarlier(b) ==
    \A j \in 1..Len(hist[b].input_ids) :
        hist[b].input_ids[j] < 0 =>
            \E a \in 1..(b - 1) : Minted(a, hist[b].input_ids[j])
\* the input the backend received for batch b has no negative entry
NoNegativeEntry(b) == \A j \in 1..Len(hist[b].fed) : hist[b].fed[j] >= 0

\* C2 (as claimed; refuted): the input the backend receives for a batch B has no
\* negative entry and holds, in every slot that carried a placeholder minted for
\* ANY batch A submitted earlier, the token the backend produced for that
\* position of A.
C2_TransparencyAnyEarlier ==
    \A b \in HistIdx :
        hist[b].fed # << >> =>
            /\ NoNegativeEntry(b)
            /\ \A j \in 1..Len(hist[b].input_ids), a \in 1..(b - 1) :
                  (hist[b].input_ids[j] < 0 /\ Minted(a, hist[b].input_ids[j])) =>
                      hist[b].fed[j] = TokenOf(a, PosOf(a, hist[b].input_ids[j]))

\* C2 (amended): the input the backend receives for a batch B whose placeholders
\* were minted for batches submitted earlier has no negative entry and holds, in
\* every slot that carried a placeholder, the token the backend produced for that
\* position of the LAST batch A submitted before B that was minted this
\* placeholder; the literal entries are as submitted.
C2_TransparencyLatest ==
    \A b \in HistIdx :
        (hist[b].fed # << >> /\ MintedEarlier(b)) =>
            /\ NoNegativeEntry(b)
            /\ Len(hist[b].fed) = Len(hist[b].input_ids)
            /\ \A j \in 1..Len(hist[b].input_ids) :
                  /\ hist[b].input_ids[j] >= 0 => hist[b].fed[j] = hist[b].input_ids[j]
                  /\ \A a \in 1..(b - 1) :
                        (hist[b].input_ids[j] < 0
                           /\ LatestMinter(a, b, hist[b].input_ids[j])) =>
                            hist[b].fed[j] =
                                TokenOf(a, PosOf(a, hist[b].input_ids[j]))

\* C2 witness: the backend received a batch of several sequences whose
\* placeholder, of a magnitude above one and not in the first position, had been
\* minted twice before it, and the slot holds the token of the later of the two
\* batches
C2_Witness ==
    \E b \in HistIdx :
        /\ hist[b].fed # << >>
        /\ MintedEarlier(b)
        /\ hist[b].input_ids[1] >= 0
        /\ \E j \in 2..Len(hist[b].input_ids) : hist[b].input_ids[j] < 0 - 1
        /\ \E j \in 1..Len(hist[b].input_ids), a \in 1..(b - 1), a0 \in 1..(b - 1) :
              /\ hist[b].input_ids[j] < 0
              /\ LatestMinter(a, b, hist[b].input_ids[j])
              /\ a0 < a
              /\ Minted(a0, hist[b].input_ids[j])
              /\ hist[b].fed[j] = TokenOf(a, PosOf(a, hist[b].input_ids[j]))

\* the batches were picked up in the order of their submission: no batch is
\* picked up while a batch submitted before it is not
InOrderPickup ==
    \A j \in HistIdx : (j > 1 /\ hist[j].consumed) => hist[j - 1].consumed
\* batches i and j hold a common reference
Alias(i, j) ==
    \E p \in 1..Len(hist[i].refs), q \in 1..Len(hist[j].refs) :
        hist[i].refs[p] = hist[j].refs[q]

\* C3 (as claimed; refuted): while the scheduler keeps at most
\* max_running_requests sequences in the batches that are not picked up, no two
\* batches that are not picked up hold the same reference.
C3_NoAliasOfLiveRefs ==
    \A j \in HistIdx :
        ~hist[j].consumed =>
            \A i \in 1..(j - 1) : ~hist[i].consumed => ~Alias(i, j)

\* C3 (amended): while the scheduler keeps at most max_running_requests sequences
\* in the batches that are not picked up AND picks the batches up in the order of
\* their submission, no two batches that are not picked up hold the same
\* reference: a magnitude is handed out again only after the pickup of the batch
\* that held it.
C3_NoAliasInOrder ==
    InOrderPickup =>
        \A j \in HistIdx :
            ~hist[j].consumed =>
                \A i \in 1..(j - 1) : ~hist[i].consumed => ~Alias(i, j)

\* C3 witness: the counter has wrapped, the batches were picked up in order, and a
\* magnitude of a picked up batch is held again by a batch that is not picked up,
\* next to another batch that is not picked up
C3_Witness ==
    /\ InOrderPickup
    /\ \E i \in HistIdx, j \in HistIdx, l \in HistIdx :
          /\ i < j /\ l # j
          /\ hist[i].consumed /\ ~hist[j].consumed /\ ~hist[l].consumed
          /\ Alias(i, j)

\* C4: the forward thread takes the batches in the order of their submission: when
\* it has taken a batch, the event of every batch submitted before is set, so the
\* signal of batch N is never later than that of batch N+1.
C4_OrderPreserved ==
    \A i \in HistIdx, j \in HistIdx :
        (i < j /\ Started(j)) => hist[i].phase = "signalled"

\* C4 witness: two batches were submitted and both are signalled
C4_Witness ==
    \E i \in HistIdx, j \in HistIdx :
        i < j /\ hist[i].phase = "signalled" /\ hist[j].phase = "signalled"

\* C5 (as claimed; the code violates it): a submission under a bid that is
\* registered and not yet picked up is rejected, so no batch is ever accepted
\* under such a bid.
C5_DuplicateBidRejected == \A i \in HistIdx : ~hist[i].dup

\* C6: once resolve_future_token_ids(bid) has returned and bid was not submitted
\* again, the bid has no event, and a further resolve_future_token_ids(bid) neither
\* waits nor returns: it raises KeyError.
C6_SecondResolveFails ==
    \A bid \in Bids :
        Taken(bid) =>
            /\ bid \notin DOMAIN future_event_map
            /\ ~(caller_pc \in {"wait", "del"} /\ caller_item.batch.bid = bid)

\* C6 witness: a second resolve_future_token_ids on a picked up bid raised KeyError
C6_Witness ==
    /\ caller_pc = "token_ids_KeyError"
    /\ Taken(caller_item.batch.bid)

\* C7 (as claimed; the code violates it): once forward_batch_generation has raised
\* and the forward thread has ended, no submission is accepted.
C7_RejectedAfterFatal == \A i \in HistIdx : ~hist[i].fatal

\* the allocator counter after the allocation of batch i
CtAfter(i) == IF i < Len(hist) THEN hist[i + 1].ct0 ELSE future_token_ids_ct

\* C8 (as claimed; refuted): the magnitudes of the references of a batch are
\* counter+1 .. counter+bs taken modulo limit.
C8_MagnitudesModuloLimit ==
    \A i \in HistIdx :
        \A p \in 1..Len(hist[i].refs) :
            0 - hist[i].refs[p] = (hist[i].ct0 + p) % future_token_ids_limit

\* C8 (amended): the references of a batch are the negatives of counter+1 ..
\* counter+bs as they are, not reduced modulo limit; the counter then becomes
\* (counter + bs) mod limit and so stays in 0..limit-1.
C8_AllocateConsecutive ==
    /\ future_token_ids_ct \in 0..(future_token_ids_limit - 1)
    /\ \A i \in HistIdx :
          /\ \A p \in 1..Len(hist[i].refs) : hist[i].refs[p] = 0 - (hist[i].ct0 + p)
          /\ CtAfter(i) = (hist[i].ct0 + Len(hist[i].refs)) % future_token_ids_limit

\* C8 witness: an allocation crossed the wrap point, its last magnitude is beyond limit
C8_Witness ==
    \E i \in HistIdx :
        /\ hist[i].ct0 + Len(hist[i].refs) > future_token_ids_limit
        /\ CtAfter(i) < hist[i].ct0

\* C9: when no bid is reused while in flight, the list resolve_future_token_ids(bid)
\* is about to return is the list the backend produced for the batch submitted
\* under bid and not yet picked up: one token per sequence, in order.
C9_NoCrossContamination ==
    (caller_pc = "del" /\ NoBidReuse) =>
        /\ \E i \in HistIdx : ~hist[i].consumed /\ hist[i].bid = caller_item.batch.bid
        /\ \A i \in HistIdx :
              (~hist[i].consumed /\ hist[i].bid = caller_item.batch.bid) =>
                  /\ caller_item.future_next_token_ids = hist[i].tokens
                  /\ Len(caller_item.future_next_token_ids) = Len(hist[i].refs)
                  /\ \A p \in 1..Len(hist[i].refs) :
                        caller_item.future_next_token_ids[p] = TokenOf(i, p)

\* C9 witness: a pickup returns the tokens of a batch of several sequences whose bid
\* had been used, and picked up, by an earlier batch
C9_Witness ==
    /\ caller_pc = "del"
    /\ NoBidReuse
    /\ Len(caller_item.future_next_token_ids) > 1
    /\ \E i \in HistIdx, j \in HistIdx :
          /\ i < j
          /\ hist[i].consumed /\ hist[i].bid = caller_item.batch.bid
          /\ ~hist[j].consumed /\ hist[j].bid = caller_item.batch.bid
          /\ caller_item.future_next_token_ids = hist[j].tokens

\* C10 (as claimed; the code violates it): once resolve_future_token_ids(bid) has
\* returned, neither the event map nor the output dict holds an entry for bid.
C10_NothingLeftAfterPickup ==
    \A bid \in Bids :
        Taken(bid) =>
            /\ bid \notin DOMAIN future_event_map
            /\ bid \notin DOMAIN future_token_ids_output

\* C11: a batch submitted with return_logprob false never has an entry under its
\* handle in future_logits_output_dict, and no resolve_future_logits_output on
\* its handle has ever returned: every such call raises KeyError.
C11_NoEntryWithoutFlag ==
    \A i \in HistIdx :
        ~hist[i].return_logprob =>
            /\ hist[i].handle \notin DOMAIN future_logits_output_dict
            /\ hist[i].popped = << >>

\* C11 witness: the batch of a handle was submitted without return_logprob and is
\* signalled, resolve_future_logits_output on the handle has raised KeyError,
\* while the entry of a batch submitted with return_logprob is in the dict
C11_Witness ==
    /\ caller_pc = "logits_output_KeyError"
    /\ \E i \in HistIdx, j \in HistIdx :
          /\ hist[i].handle = caller_item.future_logits_output
          /\ ~hist[i].return_logprob
          /\ hist[i].phase = "signalled"
          /\ hist[j].return_logprob
          /\ hist[j].handle \in DOMAIN future_logits_output_dict

\* C12 (as claimed; the code violates it): for a batch submitted with
\* return_logprob, once resolve_future_token_ids(bid) has returned for the bid of
\* the batch, the logits output of the batch is in future_logits_output_dict under
\* its handle until resolve_future_logits_output returns it; the call returns it
\* at most once, and after that the handle has no entry.
C12_LogitsAfterPickupOnce ==
    \A i \in HistIdx :
        hist[i].return_logprob =>
            /\ Len(hist[i].popped) <= 1
            /\ hist[i].popped # << >> =>
                   /\ hist[i].popped[1] = LogitsOf(i)
                   /\ hist[i].handle \notin DOMAIN future_logits_output_dict
            /\ (hist[i].consumed /\ hist[i].popped = << >>) =>
                   /\ hist[i].handle \in DOMAIN future_logits_output_dict
                   /\ future_logits_output_dict[hist[i].handle] = LogitsOf(i)

\* C13: forward_batch_generation_non_blocking never blocks: whenever the scheduler
\* is between two calls, the call is enabled for every bid and batch size,
\* whatever is queued, in progress or not picked up, and once it has registered
\* the batch its Queue.put is enabled, so the call completes.
C13_SubmitNeverBlocks ==
    /\ Ready =>
          \A bid \in Bids, bs \in 1..MaxRunning :
              ENABLED forward_batch_generation_non_blocking(
                          ModelWorkerBatch(bid, bs, LiteralInput(bs), FALSE))
    /\ caller_pc = "put" => ENABLED forward_queue_put

\* C13 witness: three batches of max_running_requests sequences were submitted
\* back to back, none is picked up, and all three wait in the queue
C13_Witness ==
    /\ Len(forward_queue) >= 3
    /\ caller_pc = "idle"
    /\ \A i \in HistIdx :
          /\ i <= 3 => Len(hist[i].refs) = MaxRunning
          /\ ~hist[i].consumed

\* the forward thread has written the tokens of batch j into the table
WroteTable(j) == hist[j].phase \in {"published", "stored", "signalled", "lost"}

\* C14: the table is written before the event is set.  When the forward thread
\* is about to set the event of a batch, and when it has set it and has written
\* nothing since, every slot abs(ref_i) of the batch holds next_token_ids[i] of
\* the batch.
C14_WriteBeforeSignal ==
    /\ thread_pc = "set_event" =>
          \A p \in 1..Len(thread_item.future_next_token_ids) :
              /\ (0 - thread_item.future_next_token_ids[p]) \in DOMAIN future_token_ids_map
              /\ future_token_ids_map[0 - thread_item.future_next_token_ids[p]]
                     = thread_out.next_token_ids[p]
    /\ \A i \in HistIdx :
          (hist[i].phase = "signalled"
             /\ \A j \in (i + 1)..Len(hist) : ~WroteTable(j)) =>
              \A p \in 1..Len(hist[i].refs) :
                  /\ (0 - hist[i].refs[p]) \in DOMAIN future_token_ids_map
                  /\ future_token_ids_map[0 - hist[i].refs[p]] = TokenOf(i, p)

\* C14 witness: the event of a batch of max_running_requests sequences is set, an
\* earlier batch has written the table before it, and the forward thread is
\* computing the next batch
C14_Witness ==
    \E i \in HistIdx :
        /\ i > 1
        /\ i < Len(hist)
        /\ hist[i].phase = "signalled"
        /\ Len(hist[i].refs) = MaxRunning
        /\ hist[i + 1].phase = "computed"

\* C15 (as claimed; the code violates it): when resolve_future_token_ids(bid) is
\* about to return, the forward thread has set the event for a batch submitted
\* under bid and not yet picked up, and the list returned is the list stored for
\* that batch when its event was set.
C15_ReturnsWhatWasSignalled ==
    caller_pc = "del" =>
        \E i \in HistIdx :
            /\ hist[i].bid = caller_item.batch.bid
            /\ ~hist[i].consumed
            /\ hist[i].phase = "signalled"
            /\ caller_item.future_next_token_ids = hist[i].tokens

\* C16: no read before write.  Provided every placeholder of a batch was minted
\* for a batch submitted earlier: when the forward thread is about to dequeue a
\* batch, and when it has substituted the placeholders of a batch, every
\* placeholder of the input names a slot of the table that the forward thread has
\* written, and no slot was ever read as torch.empty left it.  (The thread
\* writes nothing between the substitution and the call of the backend, so the
\* table is the one the substitution read.)
C16_NoReadBeforeWrite ==
    /\ (thread_pc = "get" /\ forward_queue # << >>) =>
          LET item == QueueGet(forward_queue).item
          IN MintedEarlier(item.idx) =>
                 \A k \in FutureSlots(item.batch.input_ids) :
                     k \in DOMAIN future_token_ids_map
    /\ \A b \in HistIdx :
          (hist[b].phase = "dequeued" /\ MintedEarlier(b)) =>
              \A j \in 1..Len(hist[b].input_ids) :
                  hist[b].input_ids[j] < 0 =>
                      (0 - hist[b].input_ids[j]) \in DOMAIN future_token_ids_map
    /\ (\A b \in HistIdx : MintedEarlier(b)) => future_token_ids_uninit = EmptyDict

\* C16 witness: the forward thread has substituted a placeholder of a batch that
\* was minted for the batch submitted just before it, while that batch is not
\* picked up
C16_Witness ==
    \E b \in HistIdx :
        /\ b > 1
        /\ hist[b].phase = "dequeued"
        /\ ~hist[b - 1].consumed
        /\ \E j \in 1..Len(hist[b].input_ids) :
              /\ hist[b].input_ids[j] < 0
              /\ Minted(b - 1, hist[b].input_ids[j])
              /\ thread_item.batch.input_ids[j] = TokenOf(b - 1, PosOf(b - 1, hist[b].input_ids[j]))

\* the step is one of the forward thread: each of its steps moves its position
ThreadStep == thread_pc' # thread_pc
\* the step is one of forward_batch_generation_non_blocking
SubmitStep == thread_pc' = thread_pc /\ (caller_pc' = "put" \/ caller_pc = "put")

\* C17: single writer.  A step of forward_batch_generation_non_blocking leaves
\* the table, the output dict, the logits dict and the forward thread as they
\* are (it changes only the two counters, the event map and the queue); a step
\* of the forward thread leaves the allocator counter and the handle counter as
\* they are; a step of resolve_future_token_ids or resolve_future_logits_output
\* changes neither the table nor the allocator counter.
C17_SingleWriter ==
    [][ /\ SubmitStep =>
             UNCHANGED << future_token_ids_map, future_token_ids_output,
                          future_logits_output_dict, thread_item, thread_out >>
        /\ ThreadStep =>
             UNCHANGED << future_token_ids_ct, future_logits_output_ct >>
        /\ (~SubmitStep /\ ~ThreadStep) =>
             UNCHANGED << future_token_ids_map, future_token_ids_ct,
                          future_logits_output_ct >>
      ]_vars

\* C17 witness: a submission has advanced the counter, the forward thread has
\* written the table, the tokens and the logits output of a batch were picked up,
\* and a later batch is in the queue
C17_Witness ==
    /\ future_token_ids_ct # 0
    /\ forward_queue # << >>
    /\ \E i \in HistIdx :
          /\ hist[i].returned
          /\ hist[i].popped # << >>
          /\ \A p \in 1..Len(hist[i].refs) :
                (0 - hist[i].refs[p]) \in DOMAIN future_token_ids_map

\* C18: every reference minted for a batch of 1 .. max_running_requests sequences
\* is a valid index of the table: it is negative and its magnitude lies in
\* 1 .. capacity-1, also for the allocation that crosses the wrap of the counter.
C18_RefsAreValidIndices ==
    \A i \in HistIdx :
        \A p \in 1..Len(hist[i].refs) :
            /\ hist[i].refs[p] < 0
            /\ (0 - hist[i].refs[p]) \in 1..(future_token_ids_capacity - 1)

\* C18 witness: a batch of max_running_requests sequences was allocated with the
\* counter at limit-1, so its magnitudes cross the wrap and reach the largest
\* value the allocator hands out, and the forward thread has written them
C18_Witness ==
    \E i \in HistIdx :
        /\ hist[i].ct0 = future_token_ids_limit - 1
        /\ Len(hist[i].refs) = MaxRunning
        /\ hist[i].phase = "signalled"
        /\ (future_token_ids_limit - 1 + MaxRunning) \in DOMAIN future_token_ids_map

\* C19: with bids unique among the batches in flight (no batch was submitted
\* under a bid that was registered and not picked up), the forward thread never
\* looks up a bid that is absent from future_event_map: the event of the batch it
\* works on is registered, and line 176 never raises KeyError.
C19_SignalFindsEvent ==
    NoBidReuse =>
        /\ thread_pc # "KeyError"
        /\ thread_pc \in {"forward", "set_future", "set_output", "set_event"} =>
               thread_item.batch.bid \in DOMAIN future_event_map

\* C19 witness: no bid was reused in flight, the forward thread is about to set
\* the event of a batch whose bid was used and picked up before, the scheduler is
\* submitting another batch, and the event is registered
C19_Witness ==
    /\ NoBidReuse
    /\ thread_pc = "set_event"
    /\ caller_pc = "put"
    /\ thread_item.batch.bid \in DOMAIN future_event_map
    /\ \E i \in HistIdx :
          hist[i].bid = thread_item.batch.bid /\ hist[i].consumed

\* C20 (as claimed; the code violates it): with a fair forward thread and a
\* compute backend that always returns, every batch that was put in the queue is
\* eventually signalled, and every resolve_future_token_ids that waits eventually
\* goes on.
C20_Progress ==
    /\ \A i \in 1..MaxLive :
          (Len(hist) >= i /\ hist[i].phase = "queued")
              ~> (Len(hist) >= i /\ hist[i].phase = "signalled")
    /\ (caller_pc = "wait") ~> (caller_pc # "wait")

====
